---- MODULE Spec2Model ----
(***************************************************************************)
(* Model of the matching engine of src/src/OrderBook.cpp together with the *)
(* order objects of src/src/Order.cpp.                                     *)
(*                                                                         *)
(* Order objects are shared (std::shared_ptr<Order>): the engine's index   *)
(* orders_, the price levels and the stop list all hold pointers to the    *)
(* same object.  The model keeps the objects in the sequence heap; a       *)
(* pointer is an index into heap.  Every submission constructs a new       *)
(* object for the book's own symbol, as the tests and src/src/main.cpp do. *)
(***************************************************************************)
EXTENDS Integers, Sequences, FiniteSets, TLC

\* ---------------------------------------------------------------- bounds
\* calls of one run, and those among them that add no order (cancelOrder,
\* modifyOrder, processOrder of a rejected order)
MaxSteps == 3
MaxCalls == 1
MaxId == 3
MaxQty == 2
MaxPrice == 2

Ids == 1..MaxId
Quantities == 0..MaxQty
Prices == 0..MaxPrice

\* ------------------------------------------------------------- constants
PRICE_ZERO == 0
QUANTITY_ZERO == 0
\* std::numeric_limits<int64_t>::max(), represented by a value above every
\* price of the model
PRICE_INFINITY == 1000000

Sides == {"BUY", "SELL"}
OrderTypes == {"MARKET", "LIMIT", "STOP", "STOP_LIMIT"}

Min(a, b) == IF a <= b THEN a ELSE b

\* ------------------------------------------------------------ Order.cpp

\* Order::Order without its validation
OrderUnvalidated(id, side, type, quantity, price, stopPrice) ==
    [id |-> id, side |-> side, type |-> type,
     status |-> IF type # "STOP" /\ type # "STOP_LIMIT" THEN "ACTIVE"
                ELSE "NEW",
     quantity |-> quantity, filledQuantity |-> 0,
     price |-> price, stopPrice |-> stopPrice, triggered |-> FALSE]

\* Order::Order with the derived constructors of Order.h: the validation
\* sets REJECTED, Market and Limit orders become ACTIVE, stops stay NEW.
Order(id, side, type, quantity, price, stopPrice) ==
    LET st == IF quantity = QUANTITY_ZERO THEN "REJECTED"
              ELSE IF type \in {"LIMIT", "STOP_LIMIT"} /\ price = PRICE_ZERO
                   THEN "REJECTED"
              ELSE IF type \in {"STOP", "STOP_LIMIT"} /\ stopPrice = PRICE_ZERO
                   THEN "REJECTED"
              ELSE IF type # "STOP" /\ type # "STOP_LIMIT" THEN "ACTIVE"
              ELSE "NEW"
    IN [id |-> id, side |-> side, type |-> type, status |-> st,
        quantity |-> quantity, filledQuantity |-> 0,
        price |-> price, stopPrice |-> stopPrice, triggered |-> FALSE]

getRemainingQuantity(o) == o.quantity - o.filledQuantity

isActive(o) == o.status = "ACTIVE" \/ o.status = "PARTIALLY_FILLED"

isFilled(o) == o.status = "FILLED"

isTriggerOrder(o) == o.type \in {"STOP", "STOP_LIMIT"}

isTriggered(o) == o.triggered

\* Order::fill without the comparison with getRemainingQuantity()
fillBeyondRemaining(o, quantity) ==
    IF ~isActive(o) THEN [ok |-> FALSE, o |-> o]
    ELSE LET f == o.filledQuantity + quantity
         IN [ok |-> TRUE,
             o |-> [o EXCEPT !.filledQuantity = f,
                             !.status = IF f = o.quantity THEN "FILLED"
                                        ELSE "PARTIALLY_FILLED"]]

\* Order::fill: the result and the order afterwards
fill(o, quantity) ==
    IF ~isActive(o) THEN [ok |-> FALSE, o |-> o]
    ELSE IF quantity > getRemainingQuantity(o) THEN [ok |-> FALSE, o |-> o]
    ELSE LET f == o.filledQuantity + quantity
         IN [ok |-> TRUE,
             o |-> [o EXCEPT !.filledQuantity = f,
                             !.status = IF f = o.quantity THEN "FILLED"
                                        ELSE "PARTIALLY_FILLED"]]

\* Order::cancel without the isActive() test
cancelAnyStatus(o) == [o EXCEPT !.status = "CANCELLED"]

\* Order::cancel
cancel(o) == IF isActive(o) THEN [o EXCEPT !.status = "CANCELLED"] ELSE o

\* Order::modify without the comparison of newQuantity with
\* filledQuantity_
modifyBelowFilled(o, newQuantity, newPrice, newStopPrice) ==
    IF ~isActive(o) THEN [ok |-> FALSE, o |-> o]
    ELSE [ok |-> TRUE,
          o |-> [o EXCEPT
                   !.quantity = newQuantity,
                   !.price = IF o.type \in {"LIMIT", "STOP_LIMIT"}
                             THEN newPrice ELSE @,
                   !.stopPrice = IF o.type \in {"STOP", "STOP_LIMIT"}
                                 THEN newStopPrice ELSE @]]

\* Order::modify
modify(o, newQuantity, newPrice, newStopPrice) ==
    IF ~isActive(o) THEN [ok |-> FALSE, o |-> o]
    ELSE IF newQuantity < o.filledQuantity THEN [ok |-> FALSE, o |-> o]
    ELSE [ok |-> TRUE,
          o |-> [o EXCEPT
                   !.quantity = newQuantity,
                   !.price = IF o.type \in {"LIMIT", "STOP_LIMIT"}
                             THEN newPrice ELSE @,
                   !.stopPrice = IF o.type \in {"STOP", "STOP_LIMIT"}
                                 THEN newStopPrice ELSE @]]

\* checkStopTrigger with strict comparisons
checkStopTriggerStrict(o, lastTradePrice) ==
    IF ~isTriggerOrder(o) THEN [ok |-> FALSE, o |-> o]
    ELSE IF o.triggered THEN [ok |-> FALSE, o |-> o]
    ELSE IF \/ o.side = "BUY" /\ lastTradePrice > o.stopPrice
            \/ o.side = "SELL" /\ lastTradePrice < o.stopPrice
         THEN [ok |-> TRUE, o |-> [o EXCEPT !.triggered = TRUE]]
    ELSE [ok |-> FALSE, o |-> o]

\* StopOrder::checkStopTrigger and StopLimitOrder::checkStopTrigger (the
\* two bodies are the same); the base class returns false.
checkStopTrigger(o, lastTradePrice) ==
    IF ~isTriggerOrder(o) THEN [ok |-> FALSE, o |-> o]
    ELSE IF o.triggered THEN [ok |-> FALSE, o |-> o]
    ELSE IF \/ o.side = "BUY" /\ lastTradePrice >= o.stopPrice
            \/ o.side = "SELL" /\ lastTradePrice <= o.stopPrice
         THEN [ok |-> TRUE, o |-> [o EXCEPT !.triggered = TRUE]]
    ELSE [ok |-> FALSE, o |-> o]

\* ---------------------------------------------------------- OrderBook.h

\* std::map with no key
EmptyMap == [p \in {} |-> 0]

\* PriceLevel::PriceLevel()
PriceLevel == [price |-> 0, orders |-> <<>>, totalQuantity |-> 0]

\* addOrder with push_front for push_back
addOrderFront(level, h, hp) ==
    [level EXCEPT !.orders = <<h>> \o @,
                  !.totalQuantity = @ + getRemainingQuantity(hp[h])]

\* addOrder without the update of totalQuantity
addOrderNoVolume(level, h, hp) ==
    [level EXCEPT !.orders = Append(@, h)]

\* PriceLevel::addOrder
addOrder(level, h, hp) ==
    [level EXCEPT !.orders = Append(@, h),
                  !.totalQuantity = @ + getRemainingQuantity(hp[h])]

\* position of the first order of the level with the given id, 0 if none
\* (the std::find_if of PriceLevel::removeOrder)
FindId(orders, hp, id) ==
    IF \E i \in 1..Len(orders) : hp[orders[i]].id = id
    THEN CHOOSE i \in 1..Len(orders) :
            /\ hp[orders[i]].id = id
            /\ \A j \in 1..(i - 1) : hp[orders[j]].id # id
    ELSE 0

RemoveAt(s, i) == SubSeq(s, 1, i - 1) \o SubSeq(s, i + 1, Len(s))

\* PriceLevel::removeOrder
removeOrder(level, h, hp) ==
    LET i == FindId(level.orders, hp, hp[h].id)
    IN IF i = 0 THEN level
       ELSE [level EXCEPT
               !.totalQuantity = @ - getRemainingQuantity(hp[level.orders[i]]),
               !.orders = RemoveAt(@, i)]

isEmptyLevel(level) == level.orders = <<>>

\* map::erase
Erase(m, p) == [q \in (DOMAIN m) \ {p} |-> m[q]]

\* map::operator[] followed by an assignment to the element
Put(m, p, v) == [q \in (DOMAIN m) \cup {p} |-> IF q = p THEN v ELSE m[q]]

\* begin() of the buy side if BuyCompare put the lowest price first
BestBuyLowest(keys) == CHOOSE p \in keys : \A q \in keys : p <= q

\* begin() of a map under BuyCompare (highest first) / SellCompare
BestBuy(keys) == CHOOSE p \in keys : \A q \in keys : q <= p
BestSell(keys) == CHOOSE p \in keys : \A q \in keys : p <= q

\* -------------------------------------------------------- OrderBook.cpp
\* The engine is passed through the operators below as a record e of its
\* members: heap (the Order objects), orders_, buyLevels_, sellLevels_,
\* stopOrders_, lastTradePrice_; and, for the properties only: filled (per
\* object, the sum of the quantities of the trades recorded for it),
\* arrival (per object, the rank of its latest PriceLevel::addOrder among
\* all addOrder calls, 0 if it was never placed) and hung (the call is in
\* a loop that no longer changes anything, so it never returns).

\* createTrade with its two orders exchanged
createTradeSwapped(hp, buyOrder, sellOrder, quantity, price) ==
    [buyOrderId |-> hp[sellOrder].id, sellOrderId |-> hp[buyOrder].id,
     quantity |-> quantity, price |-> price,
     buyOrder |-> sellOrder, sellOrder |-> buyOrder]

\* OrderBook::createTrade: the Trade, with the two OrderPtr arguments kept
\* beside the ids
createTrade(hp, buyOrder, sellOrder, quantity, price) ==
    [buyOrderId |-> hp[buyOrder].id, sellOrderId |-> hp[sellOrder].id,
     quantity |-> quantity, price |-> price,
     buyOrder |-> buyOrder, sellOrder |-> sellOrder]

\* the levels an order is matched against (OrderBook::matchOrder)
OppLevels(e, side) == IF side = "BUY" THEN e.sellLevels_ ELSE e.buyLevels_

SetOppLevels(e, side, lv) ==
    IF side = "BUY" THEN [e EXCEPT !.sellLevels_ = lv]
    ELSE [e EXCEPT !.buyLevels_ = lv]

\* The inner while loop of matchAgainstBook on the level at price p: fills
\* the front order and the incoming order h, records the trade, pops a
\* filled front order.  fill is called on the resting order first and on
\* the incoming order only if that succeeded (operator &&).
RECURSIVE MatchLevel(_, _, _, _)
MatchLevel(e, h, p, trades) ==
    LET o == e.heap[h]
        levels == OppLevels(e, o.side)
        level == levels[p]
    IN IF level.orders = <<>> \/ getRemainingQuantity(o) <= 0
       THEN [e |-> e, trades |-> trades]
       ELSE
        LET m == Head(level.orders)
            tradeQty == Min(getRemainingQuantity(o),
                            getRemainingQuantity(e.heap[m]))
            f1 == fill(e.heap[m], tradeQty)
            heap1 == [e.heap EXCEPT ![m] = f1.o]
            f2 == fill(heap1[h], tradeQty)
            heap2 == [heap1 EXCEPT ![h] = f2.o]
        IN IF f1.ok /\ f2.ok
           THEN LET t == IF o.side = "BUY"
                         THEN createTrade(heap2, h, m, tradeQty, p)
                         ELSE createTrade(heap2, m, h, tradeQty, p)
                    lv1 == [level EXCEPT
                              !.totalQuantity = @ - tradeQty,
                              !.orders = IF isFilled(heap2[m])
                                         THEN Tail(@) ELSE @]
                    e1 == [SetOppLevels(e, o.side, [levels EXCEPT ![p] = lv1])
                             EXCEPT !.heap = heap2,
                                    !.filled[h] = @ + tradeQty,
                                    !.filled[m] = @ + tradeQty]
                IN MatchLevel(e1, h, p, Append(trades, t))
           ELSE IF f1.ok
           THEN MatchLevel([e EXCEPT !.heap = heap1], h, p, trades)
           ELSE [e |-> [e EXCEPT !.hung = TRUE], trades |-> trades]

\* The for loop of matchAgainstBook over the levels from the best price:
\* todo is the set of keys the iterator has not yet passed.
RECURSIVE MatchLevels(_, _, _, _)

\* The end of one pass of the for loop, r being what the inner loop on the
\* level at price p has left: an emptied level is erased and the iterator
\* moves on.
NextLevel(r, h, p, todo) ==
    LET side == r.e.heap[h].side
        levels == OppLevels(r.e, side)
        e1 == IF isEmptyLevel(levels[p])
              THEN SetOppLevels(r.e, side, Erase(levels, p))
              ELSE r.e
    IN IF r.e.hung THEN r
       ELSE MatchLevels(e1, h, todo \ {p}, r.trades)

MatchLevels(e, h, todo, trades) ==
    LET o == e.heap[h]
    IN IF todo = {} \/ getRemainingQuantity(o) <= 0
       THEN [e |-> e, trades |-> trades]
       ELSE
        LET p == IF o.side = "BUY" THEN BestSell(todo) ELSE BestBuy(todo)
            tooFar == IF o.side = "BUY" THEN p > o.price ELSE p < o.price
        IN IF tooFar /\ o.type # "MARKET"
           THEN [e |-> e, trades |-> trades]
           ELSE NextLevel(MatchLevel(e, h, p, trades), h, p, todo)

\* OrderBook::matchAgainstBook (both overloads, as matchOrder calls them:
\* a BUY against sellLevels_, a SELL against buyLevels_)
matchAgainstBook(e, h) ==
    MatchLevels(e, h, DOMAIN OppLevels(e, e.heap[h].side), <<>>)

\* OrderBook::matchOrder
matchOrder(e, h) == matchAgainstBook(e, h)

\* the rank of the next addOrder call
NextArrival(arrival) ==
    LET used == {arrival[h] : h \in DOMAIN arrival} \cup {0}
    IN 1 + (CHOOSE x \in used : \A y \in used : y <= x)

\* OrderBook::addToBook
addToBook(e, h) ==
    LET o == e.heap[h]
        levels == IF o.side = "BUY" THEN e.buyLevels_ ELSE e.sellLevels_
        l0 == IF o.price \in DOMAIN levels THEN levels[o.price] ELSE PriceLevel
        l1 == IF l0.price = 0 THEN [l0 EXCEPT !.price = o.price] ELSE l0
        l2 == addOrder(l1, h, e.heap)
        e1 == [e EXCEPT !.arrival[h] = NextArrival(e.arrival)]
    IN IF o.side = "BUY"
       THEN [e1 EXCEPT !.buyLevels_ = Put(levels, o.price, l2)]
       ELSE [e1 EXCEPT !.sellLevels_ = Put(levels, o.price, l2)]

\* removeFromBook without the erase of a level that has become empty
removeFromBookKeepLevel(e, h) ==
    LET o == e.heap[h]
        levels == IF o.side = "BUY" THEN e.buyLevels_ ELSE e.sellLevels_
    IN IF o.price \notin DOMAIN levels THEN e
       ELSE LET l1 == removeOrder(levels[o.price], h, e.heap)
                lv == [levels EXCEPT ![o.price] = l1]
            IN IF o.side = "BUY" THEN [e EXCEPT !.buyLevels_ = lv]
               ELSE [e EXCEPT !.sellLevels_ = lv]

\* OrderBook::removeFromBook
removeFromBook(e, h) ==
    LET o == e.heap[h]
        levels == IF o.side = "BUY" THEN e.buyLevels_ ELSE e.sellLevels_
    IN IF o.price \notin DOMAIN levels THEN e
       ELSE LET l1 == removeOrder(levels[o.price], h, e.heap)
                lv == IF isEmptyLevel(l1) THEN Erase(levels, o.price)
                      ELSE [levels EXCEPT ![o.price] = l1]
            IN IF o.side = "BUY" THEN [e EXCEPT !.buyLevels_ = lv]
               ELSE [e EXCEPT !.sellLevels_ = lv]

\* The first loop of processTriggerOrders: every stop of the list whose
\* checkStopTrigger succeeds is marked triggered and moved, in list order,
\* to triggeredOrders.
RECURSIVE SweepStops(_, _, _, _, _)
SweepStops(hp, rest, kept, triggeredOrders, lastTradePrice) ==
    IF rest = <<>>
    THEN [heap |-> hp, stopOrders |-> kept, triggeredOrders |-> triggeredOrders]
    ELSE LET h == Head(rest)
             c == checkStopTrigger(hp[h], lastTradePrice)
         IN IF c.ok
            THEN SweepStops([hp EXCEPT ![h] = c.o], Tail(rest), kept,
                            Append(triggeredOrders, h), lastTradePrice)
            ELSE SweepStops(hp, Tail(rest), Append(kept, h),
                            triggeredOrders, lastTradePrice)

RECURSIVE processMarketOrder(_, _)
RECURSIVE processLimitOrder(_, _)
RECURSIVE processTriggerOrders(_, _)
RECURSIVE ProcessTriggered(_, _, _)

\* The tail shared by processMarketOrder and processLimitOrder: the last
\* trade price is updated and the stops are swept if trades occurred.
\* trades.insert(trades.end(), r.begin(), r.end()) for the result r of a
\* nested call
InsertTrades(trades, r) == [e |-> r.e, trades |-> trades \o r.trades]

\* the tail without the call of processTriggerOrders
AfterMatchNoSweep(e, trades) ==
    IF trades = <<>> THEN [e |-> e, trades |-> trades]
    ELSE [e |-> [e EXCEPT !.lastTradePrice_ = trades[Len(trades)].price],
          trades |-> trades]

AfterMatch(e, trades) ==
    IF trades = <<>> THEN [e |-> e, trades |-> trades]
    ELSE LET p == trades[Len(trades)].price
         IN InsertTrades(trades,
               processTriggerOrders([e EXCEPT !.lastTradePrice_ = p], p))

\* processMarketOrder after matchOrder has returned r: the remainder is
\* cancelled
MarketAfterMatch(r, h) ==
    LET e1 == IF getRemainingQuantity(r.e.heap[h]) > 0
              THEN [r.e EXCEPT !.heap[h] = cancel(@)]
              ELSE r.e
    IN IF r.e.hung THEN r ELSE AfterMatch(e1, r.trades)

\* OrderBook::processMarketOrder
processMarketOrder(e, h) == MarketAfterMatch(matchOrder(e, h), h)

\* processLimitOrder after matchOrder has returned r: an active remainder
\* is added to the book
LimitAfterMatch(r, h) ==
    LET o == r.e.heap[h]
        e1 == IF getRemainingQuantity(o) > 0 /\ isActive(o)
              THEN addToBook(r.e, h)
              ELSE r.e
    IN IF r.e.hung THEN r ELSE AfterMatch(e1, r.trades)

\* OrderBook::processLimitOrder
processLimitOrder(e, h) == LimitAfterMatch(matchOrder(e, h), h)

\* one pass of the second loop of processTriggerOrders, r being what the
\* processing of the first triggered order has returned
TriggeredNext(r, rest, trades) ==
    IF r.e.hung THEN InsertTrades(trades, r)
    ELSE ProcessTriggered(r.e, rest, trades \o r.trades)

\* The second loop of processTriggerOrders
ProcessTriggered(e, triggeredOrders, trades) ==
    IF triggeredOrders = <<>> THEN [e |-> e, trades |-> trades]
    ELSE LET h == Head(triggeredOrders)
         IN TriggeredNext(IF e.heap[h].type = "STOP"
                          THEN processMarketOrder(e, h)
                          ELSE processLimitOrder(e, h),
                          Tail(triggeredOrders), trades)

\* OrderBook::processTriggerOrders
processTriggerOrders(e, lastTradePrice) ==
    LET s == SweepStops(e.heap, e.stopOrders_, <<>>, <<>>, lastTradePrice)
        e1 == [e EXCEPT !.heap = s.heap, !.stopOrders_ = s.stopOrders]
    IN ProcessTriggered(e1, s.triggeredOrders, <<>>)

\* processOrder without the push_back of a stop onto stopOrders_
processOrderStopNotHeld(e, o) ==
    IF o.status = "REJECTED" THEN [e |-> e, trades |-> <<>>]
    ELSE
     LET h == Len(e.heap) + 1
         e1 == [e EXCEPT !.heap = Append(@, o),
                         !.filled = Append(@, 0),
                         !.arrival = Append(@, 0),
                         !.orders_ = Put(@, o.id, h)]
     IN CASE o.type = "MARKET" -> processMarketOrder(e1, h)
          [] o.type = "LIMIT" -> processLimitOrder(e1, h)
          [] OTHER ->
             LET c == checkStopTrigger(o, e1.lastTradePrice_)
                 e3 == [e1 EXCEPT !.heap[h] = c.o]
             IN IF e1.lastTradePrice_ # 0 /\ c.ok
                THEN IF o.type = "STOP" THEN processMarketOrder(e3, h)
                     ELSE processLimitOrder(e3, h)
                ELSE [e |-> e1, trades |-> <<>>]

\* OrderBook::processOrder for a newly constructed order o (of the book's
\* symbol).  The object is heap[Len(heap) + 1] when it is not rejected.
processOrder(e, o) ==
    IF o.status = "REJECTED" THEN [e |-> e, trades |-> <<>>]
    ELSE
     LET h == Len(e.heap) + 1
         e1 == [e EXCEPT !.heap = Append(@, o),
                         !.filled = Append(@, 0),
                         !.arrival = Append(@, 0),
                         !.orders_ = Put(@, o.id, h)]
     IN CASE o.type = "MARKET" -> processMarketOrder(e1, h)
          [] o.type = "LIMIT" -> processLimitOrder(e1, h)
          [] OTHER ->
             LET e2 == [e1 EXCEPT !.stopOrders_ = Append(@, h)]
                 c == checkStopTrigger(o, e2.lastTradePrice_)
                 e3 == [e2 EXCEPT !.heap[h] = c.o]
             IN IF e2.lastTradePrice_ # 0 /\ c.ok
                THEN IF o.type = "STOP" THEN processMarketOrder(e3, h)
                     ELSE processLimitOrder(e3, h)
                ELSE [e |-> e2, trades |-> <<>>]

\* cancelOrder returning true for an id that orders_ does not hold
cancelOrderAlwaysTrue(e, orderId) ==
    IF orderId \notin DOMAIN e.orders_ THEN [e |-> e, ret |-> TRUE]
    ELSE
     LET h == e.orders_[orderId]
         o == e.heap[h]
         i == FindId(e.stopOrders_, e.heap, orderId)
         e1 == IF isTriggerOrder(o) /\ ~isTriggered(o)
               THEN IF i # 0
                    THEN [e EXCEPT !.stopOrders_ = RemoveAt(@, i)]
                    ELSE e
               ELSE IF isActive(o) THEN removeFromBook(e, h)
               ELSE e
     IN [e |-> [e1 EXCEPT !.heap[h] = cancel(@)], ret |-> TRUE]

\* OrderBook::cancelOrder
cancelOrder(e, orderId) ==
    IF orderId \notin DOMAIN e.orders_ THEN [e |-> e, ret |-> FALSE]
    ELSE
     LET h == e.orders_[orderId]
         o == e.heap[h]
         i == FindId(e.stopOrders_, e.heap, orderId)
         e1 == IF isTriggerOrder(o) /\ ~isTriggered(o)
               THEN IF i # 0
                    THEN [e EXCEPT !.stopOrders_ = RemoveAt(@, i)]
                    ELSE e
               ELSE IF isActive(o) THEN removeFromBook(e, h)
               ELSE e
     IN [e |-> [e1 EXCEPT !.heap[h] = cancel(@)], ret |-> TRUE]

\* OrderBook::modifyOrder
modifyOrder(e, orderId, newQuantity, newPrice, newStopPrice0) ==
    IF orderId \notin DOMAIN e.orders_ THEN [e |-> e, ret |-> FALSE]
    ELSE
     LET h == e.orders_[orderId]
         o == e.heap[h]
         e1 == IF isActive(o) /\ ~isTriggerOrder(o) THEN removeFromBook(e, h)
               ELSE e
         newStopPrice ==
               IF ~(isActive(o) /\ ~isTriggerOrder(o))
                  /\ isTriggerOrder(o) /\ ~isTriggered(o)
                  /\ newStopPrice0 = PRICE_ZERO
               THEN o.stopPrice ELSE newStopPrice0
         m == modify(o, newQuantity, newPrice, newStopPrice)
         e2 == [e1 EXCEPT !.heap[h] = m.o]
     IN IF ~m.ok
        THEN [e |-> IF isActive(o) /\ ~isTriggerOrder(o)
                    THEN addToBook(e1, h) ELSE e1,
              ret |-> FALSE]
        ELSE IF isActive(m.o) /\ ~isTriggerOrder(m.o)
        THEN [e |-> addToBook(e2, h), ret |-> TRUE]
        ELSE IF isTriggerOrder(m.o) /\ ~isTriggered(m.o)
        THEN LET c == checkStopTrigger(m.o, e2.lastTradePrice_)
                 e3 == [e2 EXCEPT !.heap[h] = c.o]
             IN IF e2.lastTradePrice_ # 0 /\ c.ok
                THEN [e |-> (IF m.o.type = "STOP"
                             THEN processMarketOrder(e3, h)
                             ELSE processLimitOrder(e3, h)).e,
                      ret |-> TRUE]
                ELSE [e |-> e2, ret |-> TRUE]
        ELSE [e |-> e2, ret |-> TRUE]

\* OrderBook::getOrder: the object, 0 for nullptr
getOrder(e, orderId) ==
    IF orderId \in DOMAIN e.orders_ THEN e.orders_[orderId] ELSE 0

\* OrderBook::getBestBid
getBestBid(e) ==
    IF DOMAIN e.buyLevels_ = {} THEN 0 ELSE BestBuy(DOMAIN e.buyLevels_)

\* OrderBook::getBestAsk
getBestAsk(e) ==
    IF DOMAIN e.sellLevels_ = {} THEN PRICE_INFINITY
    ELSE BestSell(DOMAIN e.sellLevels_)

\* OrderBook::getVolumeAtPrice
getVolumeAtPrice(e, side, price) ==
    LET levels == IF side = "BUY" THEN e.buyLevels_ ELSE e.sellLevels_
    IN IF price \in DOMAIN levels THEN levels[price].totalQuantity ELSE 0

\* OrderBook::isEmpty
isEmpty(e) == DOMAIN e.buyLevels_ = {} /\ DOMAIN e.sellLevels_ = {}

\* ------------------------------------------------------ the state machine
VARIABLES
    heap,            \* the Order objects ever submitted and accepted
    orders_,         \* OrderBook::orders_ : id -> object
    buyLevels_,      \* OrderBook::buyLevels_ : price -> PriceLevel
    sellLevels_,     \* OrderBook::sellLevels_ : price -> PriceLevel
    stopOrders_,     \* OrderBook::stopOrders_
    lastTradePrice_, \* OrderBook::lastTradePrice_
    filled,          \* per object, the sum of its recorded trades
    arrival,         \* per object, the rank of its latest addOrder
    hung,            \* the last call never returns
    call,            \* the last call: its arguments and what it returned
    ncalls,          \* the number of calls so far that added no order
    threads,         \* per concurrent call, its position and its locals
    start            \* the engine the concurrent calls began on

vars == <<heap, orders_, buyLevels_, sellLevels_, stopOrders_,
          lastTradePrice_, filled, arrival, hung, call, ncalls, threads,
          start>>

\* the engine as the record the operators work on
Engine ==
    [heap |-> heap, orders_ |-> orders_, buyLevels_ |-> buyLevels_,
     sellLevels_ |-> sellLevels_, stopOrders_ |-> stopOrders_,
     lastTradePrice_ |-> lastTradePrice_, filled |-> filled,
     arrival |-> arrival, hung |-> hung]

Install(e) ==
    /\ heap' = e.heap
    /\ orders_' = e.orders_
    /\ buyLevels_' = e.buyLevels_
    /\ sellLevels_' = e.sellLevels_
    /\ stopOrders_' = e.stopOrders_
    /\ lastTradePrice_' = e.lastTradePrice_
    /\ filled' = e.filled
    /\ arrival' = e.arrival
    /\ hung' = e.hung

\* Order ids are only ever compared for equality, so a caller's choice of
\* an id is one of the ids the engine knows or one unknown id.
CallerIds ==
    LET unknown == Ids \ DOMAIN orders_
    IN (DOMAIN orders_) \cup
       (IF unknown = {} THEN {}
        ELSE {CHOOSE i \in unknown : \A j \in unknown : i <= j})

\* a further call can be made / a further call that adds no order
CanCall == ~hung /\ Len(heap) + ncalls < MaxSteps
CanCallOnly == CanCall /\ ncalls < MaxCalls

\* the engine after OrderBook::OrderBook
EmptyEngine ==
    [heap |-> <<>>, orders_ |-> EmptyMap, buyLevels_ |-> EmptyMap,
     sellLevels_ |-> EmptyMap, stopOrders_ |-> <<>>, lastTradePrice_ |-> 0,
     filled |-> <<>>, arrival |-> <<>>, hung |-> FALSE]

\* OrderBook::OrderBook
Init ==
    /\ heap = <<>>
    /\ orders_ = EmptyMap
    /\ buyLevels_ = EmptyMap
    /\ sellLevels_ = EmptyMap
    /\ stopOrders_ = <<>>
    /\ lastTradePrice_ = 0
    /\ filled = <<>>
    /\ arrival = <<>>
    /\ hung = FALSE
    /\ call = [op |-> "none"]
    /\ ncalls = 0
    /\ threads = <<>>
    /\ start = EmptyEngine

\* a call of processOrder with the new order o
Submit(o) ==
    /\ o.status = "REJECTED" => ncalls < MaxCalls
    /\ \E r \in {processOrder(Engine, o)} :
          /\ Install(r.e)
          /\ call' = [op |-> "processOrder", order |-> o,
                      known |-> o.id \in DOMAIN orders_,
                      h |-> IF o.status = "REJECTED" THEN 0 ELSE Len(heap) + 1,
                      trades |-> r.trades]
    /\ ncalls' = IF o.status = "REJECTED" THEN ncalls + 1 ELSE ncalls
    /\ UNCHANGED <<threads, start>>

ProcessMarket ==
    /\ CanCall
    /\ \E id \in CallerIds, side \in Sides, q \in Quantities :
          Submit(Order(id, side, "MARKET", q, PRICE_ZERO, PRICE_ZERO))

ProcessLimit ==
    /\ CanCall
    /\ \E id \in CallerIds, side \in Sides, q \in Quantities, p \in Prices :
          Submit(Order(id, side, "LIMIT", q, p, PRICE_ZERO))

ProcessStop ==
    /\ CanCall
    /\ \E id \in CallerIds, side \in Sides, q \in Quantities, sp \in Prices :
          Submit(Order(id, side, "STOP", q, PRICE_ZERO, sp))

ProcessStopLimit ==
    /\ CanCall
    /\ \E id \in CallerIds, side \in Sides, q \in Quantities, p \in Prices,
          sp \in Prices :
          Submit(Order(id, side, "STOP_LIMIT", q, p, sp))

Cancel ==
    /\ CanCallOnly
    /\ \E id \in CallerIds :
       \E r \in {cancelOrder(Engine, id)} :
          /\ Install(r.e)
          /\ call' = [op |-> "cancelOrder", id |-> id,
                      h |-> getOrder(Engine, id), ret |-> r.ret]
    /\ ncalls' = ncalls + 1
    /\ UNCHANGED <<threads, start>>

Modify ==
    /\ CanCallOnly
    /\ \E id \in CallerIds, q \in Quantities, p \in Prices, sp \in Prices :
       \E r \in {modifyOrder(Engine, id, q, p, sp)} :
          /\ Install(r.e)
          /\ call' = [op |-> "modifyOrder", id |-> id,
                      h |-> getOrder(Engine, id),
                      newQuantity |-> q, newPrice |-> p,
                      newStopPrice |-> sp, ret |-> r.ret]
    /\ ncalls' = ncalls + 1
    /\ UNCHANGED <<threads, start>>

Next ==
    \/ ProcessMarket
    \/ ProcessLimit
    \/ ProcessStop
    \/ ProcessStopLimit
    \/ Cancel
    \/ Modify

Spec == Init /\ [][Next]_vars

\* ------------------------------------------------------------ properties

Objects == 1..Len(heap)

Opposite(side) == IF side = "BUY" THEN "SELL" ELSE "BUY"

\* the levels of one side of the engine e
SideLevels(e, side) == IF side = "BUY" THEN e.buyLevels_ ELSE e.sellLevels_

\* the places <<price, position>> where object h rests in the levels
Positions(levels, h) ==
    {pi \in UNION {{<<p, i>> : i \in 1..Len(levels[p].orders)} :
                     p \in DOMAIN levels} :
        levels[pi[1]].orders[pi[2]] = h}

RestsIn(e, h) ==
    Positions(e.buyLevels_, h) # {} \/ Positions(e.sellLevels_, h) # {}

\* no two order objects have the same id
UniqueIds(hp) ==
    \A a, b \in 1..Len(hp) : a # b => hp[a].id # hp[b].id

\* the trigger predicate of a stop on a last trade price
Trigger(o, p) ==
    \/ o.side = "BUY" /\ p >= o.stopPrice
    \/ o.side = "SELL" /\ p <= o.stopPrice

\* C1: processOrder of an order whose id the engine already knows returns
\* no trades and leaves the id index, both books, the stop list, the order
\* objects and the last trade price unchanged.
C1_DuplicateIdRejected ==
    [][(call'.op = "processOrder" /\ call'.known) =>
          /\ call'.trades = <<>>
          /\ UNCHANGED <<heap, orders_, buyLevels_, sellLevels_,
                         stopOrders_, lastTradePrice_>>]_vars

\* C2: after any call completes, the best bid is below the best ask
\* whenever both sides of the book are non-empty (stated for the runs in
\* which no id was submitted twice and no level has the price 0).
C2_NeverCrossed ==
    (/\ ~hung
     /\ UniqueIds(heap)
     /\ PRICE_ZERO \notin (DOMAIN buyLevels_) \cup (DOMAIN sellLevels_)
     /\ DOMAIN buyLevels_ # {}
     /\ DOMAIN sellLevels_ # {}) =>
        getBestBid(Engine) < getBestAsk(Engine)

\* what C3 compares: the books as sequences of <<id, remaining>> with each
\* level's volume, the last trade price, and the status of the order that
\* getOrder returns for an id
BookView(levels, hp) ==
    [p \in DOMAIN levels |->
        [totalQuantity |-> levels[p].totalQuantity,
         orders |-> [i \in 1..Len(levels[p].orders) |->
                        <<hp[levels[p].orders[i]].id,
                          getRemainingQuantity(hp[levels[p].orders[i]])>>]]]

EngineView(e, id) ==
    [buy |-> BookView(e.buyLevels_, e.heap),
     sell |-> BookView(e.sellLevels_, e.heap),
     lastTradePrice |-> e.lastTradePrice_,
     status |-> e.heap[e.orders_[id]].status]

\* the result of cancelOrder(id) followed by processOrder of a new limit
\* order with the same id and side and the given quantity and price
CancelResubmit(e, id, q, p) ==
    LET o == e.heap[e.orders_[id]]
    IN processOrder(cancelOrder(e, id).e,
                    Order(id, o.side, o.type, q, p, PRICE_ZERO)).e

\* C3: modifyOrder on a resting limit order leaves the same books, order
\* status and last trade price as cancelOrder followed by processOrder of a
\* new limit order with the same id, side and kind and the new quantity and
\* price (stated for an order that has not traded yet, a new quantity and
\* price that a new order may have, and no id submitted twice).
C3_ModifyIsCancelResubmit ==
    [][(/\ call'.op = "modifyOrder"
        /\ call'.h # 0
        /\ UniqueIds(heap)
        /\ heap[call'.h].type = "LIMIT"
        /\ isActive(heap[call'.h])
        /\ heap[call'.h].filledQuantity = 0
        /\ RestsIn(Engine, call'.h)
        /\ call'.newQuantity # QUANTITY_ZERO
        /\ call'.newPrice # PRICE_ZERO) =>
          EngineView(Engine', call'.id) =
            EngineView(CancelResubmit(Engine, call'.id, call'.newQuantity,
                                      call'.newPrice), call'.id)]_vars

\* the stops the step from the unprimed to the primed state has triggered
NewlyTriggered(hp, hq) ==
    {s \in 1..Len(hp) : ~hp[s].triggered /\ hq[s].triggered}

\* the triggered stop s has taken what the opposite side offered it: all of
\* it for a Stop (a Market order), the levels within its limit for a
\* StopLimit
Exhausted(e, s) ==
    LET o == e.heap[s]
        opp == OppLevels(e, o.side)
    IN \/ getRemainingQuantity(o) = 0
       \/ /\ o.type = "STOP"
          /\ opp = EmptyMap
       \/ /\ o.type = "STOP_LIMIT"
          /\ \A p \in DOMAIN opp :
                IF o.side = "BUY" THEN p > o.price ELSE p < o.price

\* C4: when a processOrder call produces trades and the last trade price
\* satisfies the trigger predicate of a held untriggered stop, the stop is
\* triggered and taken off the stop list within the call, and (when it is
\* the only stop the call triggers) it trades against the opposite
\* liquidity: it is filled, or the opposite side has nothing left for it
\* (stated for the runs in which no id was submitted twice).
C4_TriggeredStopTrades ==
    [][(/\ call'.op = "processOrder"
        /\ ~hung'
        /\ UniqueIds(heap')
        /\ call'.trades # <<>>) =>
          \A s \in 1..Len(heap) :
             (/\ \E i \in 1..Len(stopOrders_) : stopOrders_[i] = s
              /\ ~heap[s].triggered
              /\ Trigger(heap[s], lastTradePrice_')) =>
                /\ heap'[s].triggered
                /\ \A i \in 1..Len(stopOrders_') : stopOrders_'[i] # s
                /\ NewlyTriggered(heap, heap') = {s} =>
                      Exhausted(Engine', s)]_vars

\* C5: every call returns (stated for the runs in which no id was submitted
\* twice).
C5_Terminates == UniqueIds(heap) => ~hung

\* C6: when a trade is recorded against an order B of a level, no order A
\* placed in that level before B still rests there with remaining quantity.
C6_TimePriority ==
    [][\A side \in Sides :
         \A p \in DOMAIN SideLevels(Engine, side) :
           LET orders == SideLevels(Engine, side)[p].orders
           IN \A i, j \in 1..Len(orders) :
                (/\ arrival[orders[i]] < arrival[orders[j]]
                 /\ filled'[orders[j]] > filled[orders[j]]) =>
                     ~(/\ <<p>> \in {<<pi[1]>> :
                              pi \in Positions(SideLevels(Engine', side),
                                               orders[i])}
                       /\ getRemainingQuantity(heap'[orders[i]]) > 0)]_vars

\* an order that rests, partly filled, in front of a later order of its
\* level that no trade has touched
C6_Witness ==
    UniqueIds(heap) /\
    \E side \in Sides :
      \E p \in DOMAIN SideLevels(Engine, side) :
        LET orders == SideLevels(Engine, side)[p].orders
        IN /\ Len(orders) = 2
           /\ arrival[orders[1]] < arrival[orders[2]]
           /\ filled[orders[1]] > 0
           /\ filled[orders[2]] = 0
           /\ call.op = "processOrder"
           /\ call.trades # <<>>

\* the remaining quantity of object h before the k-th trade of the call:
\* its remaining quantity when the call began (its quantity, for the order
\* the call submits) less the earlier trades of the call that name it
RECURSIVE TradedBefore(_, _, _)
TradedBefore(trades, h, k) ==
    IF k <= 1 THEN 0
    ELSE TradedBefore(trades, h, k - 1)
         + (IF h \in {trades[k - 1].buyOrder, trades[k - 1].sellOrder}
            THEN trades[k - 1].quantity ELSE 0)

\* C7: every trade of a processOrder call has the price of the level its
\* resting order rests in, the quantity min(incoming remaining, resting
\* remaining) at the moment of the match, and names the Buy order as
\* buyOrderId and the Sell order as sellOrderId.
C7_TradeFields ==
    [][call'.op = "processOrder" =>
        \A k \in 1..Len(call'.trades) :
          LET t == call'.trades[k]
              b == t.buyOrder
              s == t.sellOrder
              before(h) == (IF h <= Len(heap)
                            THEN getRemainingQuantity(heap[h])
                            ELSE call'.order.quantity)
                           - TradedBefore(call'.trades, h, k)
              resting == IF RestsIn(Engine, b) THEN b ELSE s
          IN /\ heap'[b].side = "BUY" /\ heap'[b].id = t.buyOrderId
             /\ heap'[s].side = "SELL" /\ heap'[s].id = t.sellOrderId
             /\ t.quantity = Min(before(b), before(s))
             /\ \E i \in 1..MaxSteps :
                   <<t.price, i>> \in
                      Positions(SideLevels(Engine, heap'[resting].side),
                                resting)]_vars

\* a call whose two trades are at different prices, one of them better than
\* the incoming order's limit
C7_Witness ==
    /\ UniqueIds(heap)
    /\ call.op = "processOrder"
    /\ Len(call.trades) = 2
    /\ call.trades[1].price # call.trades[2].price
    /\ call.order.type = "LIMIT"
    /\ call.trades[1].price # call.order.price

\* C8: each order's filled quantity is the sum of the quantities of the
\* recorded trades that name it (stated for the runs in which no id was
\* submitted twice).
C8_FillsAreTrades ==
    UniqueIds(heap) =>
        \A h \in Objects : heap[h].filledQuantity = filled[h]

\* C9: after processOrder of a Limit order, an order with remaining
\* quantity rests once, on its own side at its limit price, and the volume
\* of that level has grown by its remaining quantity; a fully filled order
\* is Filled and rests nowhere.
C9_LimitRestsOrFilled ==
    [][(/\ call'.op = "processOrder"
        /\ call'.h # 0
        /\ call'.order.type = "LIMIT"
        /\ ~hung') =>
          LET h == call'.h
              o == heap'[h]
              own == Positions(SideLevels(Engine', o.side), h)
              other == Positions(SideLevels(Engine', Opposite(o.side)), h)
          IN IF getRemainingQuantity(o) > 0
             THEN /\ isActive(o)
                  /\ other = {}
                  /\ Cardinality(own) = 1
                  /\ \A pi \in own : pi[1] = o.price
                  /\ getVolumeAtPrice(Engine', o.side, o.price)
                       = getVolumeAtPrice(Engine, o.side, o.price)
                         + getRemainingQuantity(o)
             ELSE /\ o.status = "FILLED"
                  /\ own = {}
                  /\ other = {}]_vars

\* a Limit order that traded and rests with its remainder at its price
C9_Witness ==
    /\ UniqueIds(heap)
    /\ call.op = "processOrder"
    /\ call.h # 0
    /\ call.order.type = "LIMIT"
    /\ call.trades # <<>>
    /\ heap[call.h].status = "PARTIALLY_FILLED"
    /\ \E i \in 1..MaxSteps :
          <<call.order.price, i>> \in
             Positions(SideLevels(Engine, call.order.side), call.h)

\* C10: after processOrder of a Market order no order with its id rests in
\* a level, and the order is Cancelled if it was not fully filled and
\* Filled if it was.
C10_MarketNeverRests ==
    (/\ call.op = "processOrder"
     /\ call.h # 0
     /\ call.order.type = "MARKET"
     /\ ~hung) =>
        /\ \A g \in Objects :
              heap[g].id = call.order.id => ~RestsIn(Engine, g)
        /\ getRemainingQuantity(heap[call.h]) > 0 =>
              heap[call.h].status = "CANCELLED"
        /\ getRemainingQuantity(heap[call.h]) = 0 =>
              heap[call.h].status = "FILLED"

\* the orders of the level of a side at a price, <<>> if there is no level
LevelOrders(e, side, p) ==
    IF p \in DOMAIN SideLevels(e, side)
    THEN SideLevels(e, side)[p].orders ELSE <<>>

\* the sequence s without the object h
Without(s, h) == SelectSeq(s, LAMBDA x : x # h)

\* the order getOrder returns for the id of the call is a Limit order that
\* is active and rests in the book
RestingLimit(e, h) ==
    /\ h # 0
    /\ e.heap[h].type = "LIMIT"
    /\ isActive(e.heap[h])
    /\ RestsIn(e, h)

\* C11: cancelOrder of a resting limit order takes exactly that order out
\* of its level (every level keeps its other orders in their order, and the
\* volume of the order's level falls by its remaining quantity), makes its
\* status Cancelled, records no trade and changes no other order.
C11_CancelRemovesExactly ==
    [][(/\ call'.op = "cancelOrder"
        /\ RestingLimit(Engine, call'.h)) =>
          LET h == call'.h
              o == heap[h]
          IN /\ call'.ret
             /\ heap'[h] = [o EXCEPT !.status = "CANCELLED"]
             /\ \A g \in Objects \ {h} : heap'[g] = heap[g]
             /\ filled' = filled
             /\ lastTradePrice_' = lastTradePrice_
             /\ \A side \in Sides, p \in Prices :
                   /\ LevelOrders(Engine', side, p)
                        = Without(LevelOrders(Engine, side, p), h)
                   /\ getVolumeAtPrice(Engine', side, p)
                        = getVolumeAtPrice(Engine, side, p)
                          - (IF side = o.side /\ p = o.price
                             THEN getRemainingQuantity(o) ELSE 0)]_vars

\* C12: cancelOrder returns true exactly when the id is known and its
\* order is Active, PartiallyFilled or an untriggered stop (stated for the
\* runs in which no id was submitted twice).
C12_CancelReturn ==
    [][(call'.op = "cancelOrder" /\ UniqueIds(heap)) =>
          (call'.ret <=>
             /\ call'.h # 0
             /\ \/ isActive(heap[call'.h])
                \/ /\ isTriggerOrder(heap[call'.h])
                   /\ ~isTriggered(heap[call'.h]))]_vars

\* the last call was a successful modifyOrder of a resting limit order
\* (the order rests again, active, after the call)
JustModified(e, c) ==
    /\ c.op = "modifyOrder"
    /\ c.ret
    /\ RestingLimit(e, c.h)

\* C13: a successful modifyOrder of a resting limit order puts it behind
\* every order that rested at its side and (new) price at the time of the
\* call, those orders keeping their places; and in the processOrder call
\* that follows, the modified order receives a fill only if those orders
\* are used up.
C13_ModifyLosesPriority ==
    [][/\ (/\ call'.op = "modifyOrder"
            /\ call'.ret
            /\ RestingLimit(Engine, call'.h)) =>
              LET h == call'.h
                  o == heap'[h]
                  before == LevelOrders(Engine, o.side, o.price)
                  after == LevelOrders(Engine', o.side, o.price)
              IN /\ after = Append(Without(before, h), h)
                 /\ \A i \in 1..Len(before) :
                       before[i] # h => arrival'[before[i]] < arrival'[h]
       /\ (/\ JustModified(Engine, call)
            /\ call'.op = "processOrder"
            /\ ~hung'
            /\ filled'[call.h] > filled[call.h]) =>
              LET o == heap[call.h]
                  level == LevelOrders(Engine, o.side, o.price)
              IN \A i \in 1..Len(level) :
                    level[i] # call.h =>
                       getRemainingQuantity(heap'[level[i]]) = 0]_vars

\* C14: modifyOrder of a resting order with a new quantity below its filled
\* quantity returns false and leaves the order cancelled: it rests nowhere
\* and its status is Cancelled (stated for the runs in which no id was
\* submitted twice).
C14_FailedModifyCancels ==
    [][(/\ call'.op = "modifyOrder"
        /\ UniqueIds(heap)
        /\ RestingLimit(Engine, call'.h)
        /\ call'.newQuantity < heap[call'.h].filledQuantity) =>
          /\ ~call'.ret
          /\ ~RestsIn(Engine', call'.h)
          /\ heap'[call'.h].status = "CANCELLED"]_vars

\* C15: after a successful modifyOrder(id, q, p) of a resting limit order
\* the order has quantity q and price p, the volume at its old price has
\* lost its old remaining quantity (the level is gone if the order was
\* alone in it), and the volume at its side and p has gained q minus its
\* filled quantity.
C15_ModifyMovesVolume ==
    [][(/\ call'.op = "modifyOrder"
        /\ call'.ret
        /\ RestingLimit(Engine, call'.h)) =>
          LET h == call'.h
              o == heap[h]
              q == call'.newQuantity
              p == call'.newPrice
              gone == getRemainingQuantity(o)
              come == q - o.filledQuantity
              vol(e, price) == getVolumeAtPrice(e, o.side, price)
          IN /\ heap'[h].quantity = q
             /\ heap'[h].price = p
             /\ IF p = o.price
                THEN vol(Engine', p) = vol(Engine, p) - gone + come
                ELSE /\ vol(Engine', o.price) = vol(Engine, o.price) - gone
                     /\ LevelOrders(Engine, o.side, o.price) = <<h>> =>
                           o.price \notin DOMAIN SideLevels(Engine', o.side)
                     /\ vol(Engine', p) = vol(Engine, p) + come]_vars

\* the stops the call of the step has triggered: held stops the trigger
\* pass has marked, and the submitted stop if it was triggered on arrival
TriggeredInCall ==
    NewlyTriggered(heap, heap')
    \cup (IF call'.h > Len(heap) /\ heap'[call'.h].triggered
          THEN {call'.h} ELSE {})

\* C16: a stop-limit order that a processOrder call has triggered (alone)
\* has been matched against the opposite levels within its limit, and a
\* remainder rests on its own side at its limit price, counted in the
\* volume of that level (stated for the runs in which no id was submitted
\* twice).
C16_TriggeredStopLimitRests ==
    [][(/\ call'.op = "processOrder"
        /\ call'.h # 0
        /\ ~hung'
        /\ UniqueIds(heap')) =>
          \A s \in TriggeredInCall :
             (/\ TriggeredInCall = {s}
              /\ heap'[s].type = "STOP_LIMIT") =>
                LET o == heap'[s]
                IN /\ Exhausted(Engine', s)
                   /\ getRemainingQuantity(o) > 0 =>
                         /\ \E i \in 1..MaxSteps :
                               <<o.price, i>> \in
                                  Positions(SideLevels(Engine', o.side), s)
                         /\ getVolumeAtPrice(Engine', o.side, o.price)
                               >= getRemainingQuantity(o)]_vars

\* the object h is an untriggered stop or stop-limit order on the stop list
HeldStop(e, h) ==
    /\ h # 0
    /\ isTriggerOrder(e.heap[h])
    /\ ~isTriggered(e.heap[h])
    /\ \E i \in 1..Len(e.stopOrders_) : e.stopOrders_[i] = h

\* C17: cancelOrder of a held untriggered stop takes it off the stop list
\* and moves its status from New to Cancelled (stated for the runs in
\* which no id was submitted twice).
C17_CancelHeldStop ==
    [][(/\ call'.op = "cancelOrder"
        /\ UniqueIds(heap)
        /\ HeldStop(Engine, call'.h)) =>
          /\ \A i \in 1..Len(stopOrders_') : stopOrders_'[i] # call'.h
          /\ heap[call'.h].status = "NEW"
          /\ heap'[call'.h].status = "CANCELLED"]_vars

\* C18: modifyOrder of a held untriggered stop with a new quantity above 0
\* and a new stop price other than 0 (and, for a stop-limit, a new price
\* other than 0) returns true and sets the order's quantity and stop price
\* (and the limit price of a stop-limit) (stated for the runs in which no
\* id was submitted twice).
C18_ModifyHeldStop ==
    [][(/\ call'.op = "modifyOrder"
        /\ UniqueIds(heap)
        /\ HeldStop(Engine, call'.h)
        /\ call'.newQuantity > QUANTITY_ZERO
        /\ call'.newStopPrice # PRICE_ZERO
        /\ heap[call'.h].type = "STOP_LIMIT" => call'.newPrice # PRICE_ZERO) =>
          /\ call'.ret
          /\ heap'[call'.h].quantity = call'.newQuantity
          /\ heap'[call'.h].stopPrice = call'.newStopPrice
          /\ heap[call'.h].type = "STOP_LIMIT" =>
                heap'[call'.h].price = call'.newPrice]_vars

\* the constructor arguments of o are ones Order::Order rejects
Invalid(o) ==
    \/ o.quantity = QUANTITY_ZERO
    \/ o.type \in {"LIMIT", "STOP_LIMIT"} /\ o.price = PRICE_ZERO
    \/ o.type \in {"STOP", "STOP_LIMIT"} /\ o.stopPrice = PRICE_ZERO

\* C19: an order constructed with quantity 0, or as a Limit or StopLimit
\* with price 0, or as a Stop or StopLimit with stop price 0, is Rejected,
\* and processOrder of it returns no trades and leaves the order objects,
\* the id index, both books, the stop list and the last trade price
\* unchanged.
C19_RejectedNoEffect ==
    [][(call'.op = "processOrder" /\ Invalid(call'.order)) =>
          /\ call'.order.status = "REJECTED"
          /\ call'.trades = <<>>
          /\ UNCHANGED <<heap, orders_, buyLevels_, sellLevels_,
                         stopOrders_, lastTradePrice_, hung>>]_vars

\* a rejected Sell Limit order at price 0 (which any bid would match) was
\* submitted while bids rest, and no order object was added
C19_Witness ==
    /\ call.op = "processOrder"
    /\ call.h = 0
    /\ call.order.type = "LIMIT"
    /\ call.order.side = "SELL"
    /\ call.order.quantity > QUANTITY_ZERO
    /\ call.order.price = PRICE_ZERO
    /\ call.order.id \notin DOMAIN orders_
    /\ DOMAIN buyLevels_ # {}

\* C20: cancelOrder and modifyOrder with an id the engine does not hold
\* return false and leave the order objects, the id index, both books, the
\* stop list and the last trade price unchanged, and the engine is not
\* stuck.
C20_UnknownIdNoEffect ==
    [][(/\ call'.op \in {"cancelOrder", "modifyOrder"}
        /\ call'.id \notin DOMAIN orders_) =>
          /\ ~call'.ret
          /\ ~hung'
          /\ UNCHANGED <<heap, orders_, buyLevels_, sellLevels_,
                         stopOrders_, lastTradePrice_>>]_vars

\* a call with an unknown id has returned false while orders rest in the
\* book, and a further call can be made
C20_Witness ==
    /\ call.op \in {"cancelOrder", "modifyOrder"}
    /\ call.id \notin DOMAIN orders_
    /\ ~call.ret
    /\ ~isEmpty(Engine)
    /\ CanCall

\* C21: in every reachable state every order's filled quantity is at most
\* its quantity, so that quantity - filledQuantity never wraps around.
C21_FilledAtMostQuantity ==
    \A h \in Objects : heap[h].filledQuantity <= heap[h].quantity

\* a modifyOrder call that asks for less than a resting order has already
\* traded, and one that lowers the quantity to what has been traded
C21_Witness ==
    /\ call.op = "modifyOrder"
    /\ call.h # 0
    /\ heap[call.h].filledQuantity > 0
    /\ \/ ~call.ret /\ call.newQuantity < heap[call.h].filledQuantity
       \/ call.ret /\ heap[call.h].quantity = heap[call.h].filledQuantity

\* C22: after any call, an order's status is FILLED if and only if its
\* filled quantity equals its quantity and the quantity is positive; no
\* order whose filled quantity equals its quantity is still ACTIVE or
\* PARTIALLY_FILLED or rests in the book (stated for the runs in which no
\* id was submitted twice).
C22_FilledIffFullyTraded ==
    (~hung /\ UniqueIds(heap)) =>
        \A h \in Objects :
           /\ isFilled(heap[h]) <=>
                 (/\ heap[h].filledQuantity = heap[h].quantity
                  /\ heap[h].quantity > 0)
           /\ (/\ heap[h].filledQuantity = heap[h].quantity
               /\ heap[h].quantity > 0) =>
                  ~isActive(heap[h]) /\ ~RestsIn(Engine, h)

\* the orders a level of the given side and price may hold: those with
\* status ACTIVE or PARTIALLY_FILLED, of that side and price, that are not
\* stops still waiting for their trigger
Live(o, side, p) ==
    /\ isActive(o)
    /\ o.side = side
    /\ o.price = p
    /\ ~(isTriggerOrder(o) /\ ~isTriggered(o))

\* C23: after any call, every order held in a price level has status
\* ACTIVE or PARTIALLY_FILLED, is of the level's side and price and is not
\* an untriggered stop.
C23_LevelsHoldLiveOrders ==
    ~hung =>
      \A side \in Sides :
        \A p \in DOMAIN SideLevels(Engine, side) :
          LET orders == SideLevels(Engine, side)[p].orders
          IN \A i \in 1..Len(orders) : Live(heap[orders[i]], side, p)

\* the places that hold object h: its positions in the levels of both sides
\* and in the stop list
Places(e, h) ==
    {<<"BUY", pi>> : pi \in Positions(e.buyLevels_, h)}
    \cup {<<"SELL", pi>> : pi \in Positions(e.sellLevels_, h)}
    \cup {<<"STOP", i>> : i \in {j \in 1..Len(e.stopOrders_) :
                                     e.stopOrders_[j] = h}}

\* C24: after any call, each order id is held in at most one place (one
\* position of one price level, or the stop list), and every order that
\* rests in a level or is held in the stop list is the order getOrder
\* returns for its id.
C24_IndexConsistent ==
    ~hung =>
      /\ \A id \in Ids :
            Cardinality(UNION {Places(Engine, h) :
                                h \in {g \in Objects : heap[g].id = id}}) <= 1
      /\ \A h \in Objects :
            Places(Engine, h) # {} => getOrder(Engine, heap[h].id) = h

\* the sum of the remaining quantities of the orders of a level
RECURSIVE SumRemaining(_, _)
SumRemaining(orders, hp) ==
    IF orders = <<>> THEN 0
    ELSE getRemainingQuantity(hp[Head(orders)])
         + SumRemaining(Tail(orders), hp)

\* C25: after any call, the totalQuantity of each price level, which is
\* what getVolumeAtPrice returns for its side and price, is the sum of the
\* remaining quantities of the orders in the level.
C25_LevelVolume ==
    ~hung =>
      \A side \in Sides :
        \A p \in DOMAIN SideLevels(Engine, side) :
           getVolumeAtPrice(Engine, side, p) =
              SumRemaining(SideLevels(Engine, side)[p].orders, heap)

\* price p is a better price than q for an incoming order of the given side
Better(side, p, q) == IF side = "BUY" THEN p < q ELSE p > q

\* C28: in a processOrder call that returns trades, the first trade is at
\* the best opposite price present when the call started (the lowest ask
\* for a Buy, the highest bid for a Sell), the trade prices never improve
\* along the returned sequence (non-decreasing for a Buy, non-increasing
\* for a Sell), and every opposite level better than the price of a trade
\* has been emptied.
C28_PricePriority ==
    [][(/\ call'.op = "processOrder"
        /\ ~hung'
        /\ call'.trades # <<>>) =>
          LET side == call'.order.side
              opp == OppLevels(Engine, side)
              trades == call'.trades
          IN /\ DOMAIN opp # {}
             /\ trades[1].price = IF side = "BUY" THEN BestSell(DOMAIN opp)
                                  ELSE BestBuy(DOMAIN opp)
             /\ \A k \in 1..(Len(trades) - 1) :
                   ~Better(side, trades[k + 1].price, trades[k].price)
             /\ \A k \in 1..Len(trades) :
                   \A p \in DOMAIN opp :
                      Better(side, p, trades[k].price) =>
                         p \notin DOMAIN OppLevels(Engine', side)]_vars

\* an incoming Sell that has traded at two bid levels, the higher one first
C28_Witness ==
    /\ UniqueIds(heap)
    /\ call.op = "processOrder"
    /\ ~hung
    /\ call.order.side = "SELL"
    /\ Len(call.trades) = 2
    /\ call.trades[1].price > call.trades[2].price

\* C29: after any call, no side of the book has a price level whose order
\* sequence is empty, so getBestBid and getBestAsk return the price of a
\* level that holds an order.
C29_NoEmptyLevel ==
    ~hung =>
      /\ \A side \in Sides :
            \A p \in DOMAIN SideLevels(Engine, side) :
               ~isEmptyLevel(SideLevels(Engine, side)[p])
      /\ DOMAIN buyLevels_ # {} =>
            buyLevels_[getBestBid(Engine)].orders # <<>>
      /\ DOMAIN sellLevels_ # {} =>
            sellLevels_[getBestAsk(Engine)].orders # <<>>

\* a cancelOrder call that has taken the last order out of its level
C29_Witness ==
    /\ UniqueIds(heap)
    /\ call.op = "cancelOrder"
    /\ call.h # 0
    /\ heap[call.h].type = "LIMIT"
    /\ heap[call.h].status = "CANCELLED"
    /\ ~RestsIn(Engine, call.h)
    /\ heap[call.h].price \notin DOMAIN SideLevels(Engine, heap[call.h].side)

\* C30: after any call, the stop list holds only stop and stop-limit
\* orders that have not triggered (stated for the runs in which no id was
\* submitted twice).
C30_StopListUntriggered ==
    (~hung /\ UniqueIds(heap)) =>
        \A i \in 1..Len(stopOrders_) :
           /\ isTriggerOrder(heap[stopOrders_[i]])
           /\ ~isTriggered(heap[stopOrders_[i]])

\* ------------------------------------------------- concurrent callers
\* Two threads call into one OrderBook.  The first calls processOrder with
\* a limit order; the second calls processOrder with another limit order
\* or one of the const queries.  The calls begin on the engine of a new
\* book or of a book in which one limit order rests.  The code guards each
\* container with its own mutex (ordersMutex_, buyMutex_, sellMutex_,
\* stopOrdersMutex_) and no lock_guard scope lies inside another one
\* except in isEmpty, so each scope is one atomic step here and a thread
\* can be preempted between any two of them.  lastTradePrice_ is a
\* std::atomic: its store and its load are steps of their own.  The orders
\* are accepted by Order::Order and have ids of their own; the stop list
\* is empty throughout, so the sweep of processTriggerOrders finds nothing.

\* the limit orders with the given id that Order::Order accepts
LimitOrders(id) ==
    {Order(id, side, "LIMIT", q, p, PRICE_ZERO) :
        side \in Sides, q \in Quantities \ {QUANTITY_ZERO},
        p \in Prices \ {PRICE_ZERO}}

\* the engines the concurrent calls begin on
StartEngines ==
    {EmptyEngine} \cup {processOrder(EmptyEngine, o).e : o \in LimitOrders(1)}

\* the queries of the second thread
Queries ==
    {[op |-> op, side |-> "BUY", price |-> 0, id |-> 0] :
        op \in {"getBestBid", "getBestAsk", "isEmpty"}}
    \cup {[op |-> "getVolumeAtPrice", side |-> side, price |-> p, id |-> 0] :
             side \in Sides, p \in Prices \ {PRICE_ZERO}}
    \cup {[op |-> "getOrder", side |-> "BUY", price |-> 0, id |-> id] :
             id \in {1, 2}}

\* what the query q returns on the engine e
Query(e, q) ==
    CASE q.op = "getBestBid" -> getBestBid(e)
      [] q.op = "getBestAsk" -> getBestAsk(e)
      [] q.op = "isEmpty" -> isEmpty(e)
      [] q.op = "getVolumeAtPrice" -> getVolumeAtPrice(e, q.side, q.price)
      [] q.op = "getOrder" -> getOrder(e, q.id)

\* a thread that is about to call processOrder with the order o, which is
\* the object h, and a thread that is about to make the query q
Submitter(o, h) ==
    [op |-> "processOrder", pc |-> "orders", order |-> o, h |-> h,
     trades |-> <<>>, lastTradePrice |-> 0,
     query |-> [op |-> "none", side |-> "BUY", price |-> 0, id |-> 0],
     result |-> 0]

Observer(q) ==
    [op |-> "query", pc |-> "query",
     order |-> Order(0, "BUY", "LIMIT", 0, 0, 0), h |-> 0,
     trades |-> <<>>, lastTradePrice |-> 0, query |-> q, result |-> 0]

Threads == 1..2

ThreadInit ==
    /\ start \in StartEngines
    /\ \E o1 \in LimitOrders(2) :
          \/ \E o2 \in LimitOrders(3) :
                /\ threads = <<Submitter(o1, Len(start.heap) + 1),
                               Submitter(o2, Len(start.heap) + 2)>>
                /\ heap = start.heap \o <<o1, o2>>
                /\ filled = start.filled \o <<0, 0>>
                /\ arrival = start.arrival \o <<0, 0>>
          \/ \E q \in Queries :
                /\ threads = <<Submitter(o1, Len(start.heap) + 1),
                               Observer(q)>>
                /\ heap = Append(start.heap, o1)
                /\ filled = Append(start.filled, 0)
                /\ arrival = Append(start.arrival, 0)
    /\ orders_ = start.orders_
    /\ buyLevels_ = start.buyLevels_
    /\ sellLevels_ = start.sellLevels_
    /\ stopOrders_ = start.stopOrders_
    /\ lastTradePrice_ = start.lastTradePrice_
    /\ hung = FALSE
    /\ call = [op |-> "none"]
    /\ ncalls = 0

\* processOrder: orders_[order->getId()] = order under ordersMutex_
ThreadOrders ==
    \E t \in Threads :
       /\ threads[t].pc = "orders"
       /\ orders_' = Put(orders_, threads[t].order.id, threads[t].h)
       /\ threads' = [threads EXCEPT ![t].pc = "match"]
       /\ UNCHANGED <<heap, buyLevels_, sellLevels_, stopOrders_,
                      lastTradePrice_, filled, arrival, hung, call, ncalls,
                      start>>

\* processLimitOrder: matchOrder, the whole of matchAgainstBook under the
\* mutex of the opposite side
ThreadMatch ==
    \E t \in Threads :
       /\ threads[t].pc = "match"
       /\ \E r \in {matchOrder(Engine, threads[t].h)} :
             /\ Install(r.e)
             /\ threads' = [threads EXCEPT ![t].pc = "add",
                                           ![t].trades = r.trades]
       /\ UNCHANGED <<call, ncalls, start>>

\* processLimitOrder: an active remainder is added to the book, addToBook
\* under the mutex of the order's own side; without trades the call
\* returns
ThreadAddToBook ==
    \E t \in Threads :
       /\ threads[t].pc = "add"
       /\ Install(IF /\ getRemainingQuantity(heap[threads[t].h]) > 0
                     /\ isActive(heap[threads[t].h])
                  THEN addToBook(Engine, threads[t].h)
                  ELSE Engine)
       /\ threads' = [threads EXCEPT
                        ![t].pc = IF threads[t].trades = <<>> THEN "done"
                                  ELSE "store"]
       /\ UNCHANGED <<call, ncalls, start>>

\* processLimitOrder: lastTradePrice_ = trades.back().price
ThreadStoreLast ==
    \E t \in Threads :
       /\ threads[t].pc = "store"
       /\ lastTradePrice_' =
             threads[t].trades[Len(threads[t].trades)].price
       /\ threads' = [threads EXCEPT ![t].pc = "load"]
       /\ UNCHANGED <<heap, orders_, buyLevels_, sellLevels_, stopOrders_,
                      filled, arrival, hung, call, ncalls, start>>

\* processLimitOrder: the load of lastTradePrice_ for the argument of
\* processTriggerOrders
ThreadLoadLast ==
    \E t \in Threads :
       /\ threads[t].pc = "load"
       /\ threads' = [threads EXCEPT ![t].pc = "sweep",
                                     ![t].lastTradePrice = lastTradePrice_]
       /\ UNCHANGED <<heap, orders_, buyLevels_, sellLevels_, stopOrders_,
                      lastTradePrice_, filled, arrival, hung, call, ncalls,
                      start>>

\* processLimitOrder: processTriggerOrders, its sweep under
\* stopOrdersMutex_, and the return of the trades
ThreadSweep ==
    \E t \in Threads :
       /\ threads[t].pc = "sweep"
       /\ \E r \in {processTriggerOrders(Engine, threads[t].lastTradePrice)} :
             /\ Install(r.e)
             /\ threads' = [threads EXCEPT
                              ![t].pc = "done",
                              ![t].trades = @ \o r.trades]
       /\ UNCHANGED <<call, ncalls, start>>

\* a query, under the mutex (isEmpty: the two mutexes) of what it reads
ThreadQuery ==
    \E t \in Threads :
       /\ threads[t].pc = "query"
       /\ threads' = [threads EXCEPT
                        ![t].pc = "done",
                        ![t].result = Query(Engine, threads[t].query)]
       /\ UNCHANGED <<heap, orders_, buyLevels_, sellLevels_, stopOrders_,
                      lastTradePrice_, filled, arrival, hung, call, ncalls,
                      start>>

ThreadNext ==
    \/ ThreadOrders
    \/ ThreadMatch
    \/ ThreadAddToBook
    \/ ThreadStoreLast
    \/ ThreadLoadLast
    \/ ThreadSweep
    \/ ThreadQuery

ThreadSpec == ThreadInit /\ [][ThreadNext]_vars

\* what a caller can see of the engine e: both books as <<id, remaining>>
\* sequences with the level volumes, the last trade price, and every order
\* getOrder returns
ThreadsView(e) ==
    [buy |-> BookView(e.buyLevels_, e.heap),
     sell |-> BookView(e.sellLevels_, e.heap),
     lastTradePrice |-> e.lastTradePrice_,
     orders |-> [id \in DOMAIN e.orders_ |-> e.heap[e.orders_[id]]]]

\* the trades a call returns, as the Trade objects
TradesView(trades) ==
    [k \in 1..Len(trades) |->
        [buyOrderId |-> trades[k].buyOrderId,
         sellOrderId |-> trades[k].sellOrderId,
         quantity |-> trades[k].quantity, price |-> trades[k].price]]

\* the outcome of the call of thread a followed by the call of thread b
Serial(a, b) ==
    LET ra == processOrder(start, threads[a].order)
        rb == processOrder(ra.e, threads[b].order)
    IN [engine |-> ThreadsView(rb.e),
        trades |-> (a :> TradesView(ra.trades)) @@
                   (b :> TradesView(rb.trades))]

BothDone == \A t \in Threads : threads[t].pc = "done"

\* C26: when two threads call processOrder concurrently, the books, the
\* orders and the trades each call returns are those of one of the two
\* serial executions of the calls.
C26_Serializable ==
    (/\ threads # <<>>
     /\ BothDone
     /\ \A t \in Threads : threads[t].op = "processOrder") =>
        \E ab \in {<<1, 2>>, <<2, 1>>} :
           /\ ThreadsView(Engine) = Serial(ab[1], ab[2]).engine
           /\ \A t \in Threads :
                 TradesView(threads[t].trades) = Serial(ab[1], ab[2]).trades[t]

\* C27: a query that runs concurrently with a processOrder call returns
\* what it returns on the engine before the call or on the engine after it.
C27_QuerySnapshot ==
    (/\ threads # <<>>
     /\ BothDone
     /\ threads[2].op = "query") =>
        threads[2].result \in {Query(start, threads[2].query),
                               Query(Engine, threads[2].query)}

NewOrders ==
    {Order(1, side, "MARKET", q, PRICE_ZERO, PRICE_ZERO) :
        side \in Sides, q \in Quantities}
    \cup {Order(1, side, "LIMIT", q, p, PRICE_ZERO) :
             side \in Sides, q \in Quantities, p \in Prices}
    \cup {Order(1, side, "STOP", q, PRICE_ZERO, sp) :
             side \in Sides, q \in Quantities, sp \in Prices}
    \cup {Order(1, side, "STOP_LIMIT", q, p, sp) :
             side \in Sides, q \in Quantities, p \in Prices, sp \in Prices}

OrderInit ==
    /\ heap \in {<<o>> : o \in NewOrders}
    /\ orders_ = EmptyMap
    /\ buyLevels_ = EmptyMap
    /\ sellLevels_ = EmptyMap
    /\ stopOrders_ = <<>>
    /\ lastTradePrice_ = 0
    /\ filled = <<0>>
    /\ arrival = <<0>>
    /\ hung = FALSE
    /\ call = [op |-> "none"]
    /\ ncalls = 0
    /\ threads = <<>>
    /\ start = EmptyEngine

OrderFrame ==
    UNCHANGED <<orders_, buyLevels_, sellLevels_, stopOrders_,
                lastTradePrice_, filled, arrival, hung, ncalls, threads,
                start>>

OrderFill ==
    /\ \E quantity \in Quantities :
       \E r \in {fill(heap[1], quantity)} :
          /\ heap' = <<r.o>>
          /\ call' = [op |-> "fill", quantity |-> quantity, ret |-> r.ok]
    /\ OrderFrame

OrderCancel ==
    /\ heap' = <<cancel(heap[1])>>
    /\ call' = [op |-> "cancel"]
    /\ OrderFrame

OrderModify ==
    /\ \E q \in Quantities, p \in Prices, sp \in Prices :
       \E r \in {modify(heap[1], q, p, sp)} :
          /\ heap' = <<r.o>>
          /\ call' = [op |-> "modify", newQuantity |-> q, newPrice |-> p,
                      newStopPrice |-> sp, ret |-> r.ok]
    /\ OrderFrame

OrderCheckStopTrigger ==
    /\ \E p \in Prices :
       \E r \in {checkStopTrigger(heap[1], p)} :
          /\ heap' = <<r.o>>
          /\ call' = [op |-> "checkStopTrigger", lastTradePrice |-> p,
                      ret |-> r.ok]
    /\ OrderFrame

OrderNext ==
    \/ OrderFill
    \/ OrderCancel
    \/ OrderModify
    \/ OrderCheckStopTrigger

OrderSpec == OrderInit /\ [][OrderNext]_vars

\* C32: checkStopTrigger(p) on an untriggered Stop or StopLimit order
\* returns true and marks the order triggered if and only if the order is a
\* Buy and p >= its stop price or a Sell and p <= its stop price; otherwise
\* it returns false and changes nothing; on a triggered order it returns
\* false and the order stays triggered.
C32_CheckStopTrigger ==
    [][(call'.op = "checkStopTrigger" /\ isTriggerOrder(heap[1])) =>
          IF ~isTriggered(heap[1]) /\ Trigger(heap[1], call'.lastTradePrice)
          THEN /\ call'.ret
               /\ heap'[1] = [heap[1] EXCEPT !.triggered = TRUE]
          ELSE /\ ~call'.ret
               /\ heap'[1] = heap[1]]_vars

\* a triggered Sell stop on which checkStopTrigger has been called again
\* with a price that satisfies its predicate, and has returned false
C32_Witness ==
    /\ call.op = "checkStopTrigger"
    /\ ~call.ret
    /\ heap[1].type = "STOP"
    /\ heap[1].side = "SELL"
    /\ isTriggered(heap[1])
    /\ call.lastTradePrice = heap[1].stopPrice

\* C35: Order::fill(q) returns false and changes nothing if the order is
\* not ACTIVE or PARTIALLY_FILLED or if q exceeds the remaining quantity;
\* otherwise it returns true, adds q to the filled quantity and nothing
\* else but the status, which becomes FILLED when nothing remains and
\* PARTIALLY_FILLED otherwise.
C35_Fill ==
    [][call'.op = "fill" =>
          LET o == heap[1]
              q == call'.quantity
          IN IF ~isActive(o) \/ q > getRemainingQuantity(o)
             THEN /\ ~call'.ret
                  /\ heap'[1] = o
             ELSE /\ call'.ret
                  /\ heap'[1] =
                        [o EXCEPT
                           !.filledQuantity = @ + q,
                           !.status =
                              IF getRemainingQuantity(o) - q = 0
                              THEN "FILLED" ELSE "PARTIALLY_FILLED"]]_vars

\* a partly filled order on which fill has been refused for a quantity
\* above what remains
C35_Witness ==
    /\ call.op = "fill"
    /\ ~call.ret
    /\ heap[1].status = "PARTIALLY_FILLED"
    /\ heap[1].filledQuantity > 0
    /\ call.quantity > getRemainingQuantity(heap[1])

\* C33: after a processOrder call that returned at least one trade, no
\* untriggered stop in the stop list satisfies its trigger predicate for
\* the last trade price.
C33_SweepFixedPoint ==
    (/\ call.op = "processOrder"
     /\ call.trades # <<>>
     /\ ~hung) =>
        \A i \in 1..Len(stopOrders_) :
           ~(/\ ~isTriggered(heap[stopOrders_[i]])
             /\ Trigger(heap[stopOrders_[i]], lastTradePrice_))

\* a processOrder call whose trade has triggered a held stop, which the
\* sweep has taken off the stop list
C33_Witness ==
    /\ UniqueIds(heap)
    /\ call.op = "processOrder"
    /\ call.trades # <<>>
    /\ ~hung
    /\ \E h \in Objects :
          /\ isTriggerOrder(heap[h])
          /\ isTriggered(heap[h])
          /\ h # call.h
          /\ Trigger(heap[h], lastTradePrice_)
          /\ \A i \in 1..Len(stopOrders_) : stopOrders_[i] # h

\* C34: processOrder of a valid Stop or StopLimit order while no trade has
\* occurred yet, or while the last trade price does not satisfy its trigger
\* predicate, returns no trades, leaves both books, every other order and
\* the last trade price unchanged, and holds the order, NEW and
\* untriggered, at the end of the stop list and in the id index.
C34_StopHeld ==
    [][(/\ call'.op = "processOrder"
        /\ isTriggerOrder(call'.order)
        /\ call'.order.status # "REJECTED"
        /\ \/ lastTradePrice_ = 0
           \/ ~Trigger(call'.order, lastTradePrice_)) =>
          /\ ~hung'
          /\ call'.trades = <<>>
          /\ UNCHANGED <<buyLevels_, sellLevels_, lastTradePrice_>>
          /\ heap' = Append(heap, call'.order)
          /\ heap'[call'.h].status = "NEW"
          /\ ~isTriggered(heap'[call'.h])
          /\ stopOrders_' = Append(stopOrders_, call'.h)
          /\ getOrder(Engine', call'.order.id) = call'.h]_vars

\* a StopLimit order submitted after a trade whose price does not satisfy
\* its predicate, and held
C34_Witness ==
    /\ UniqueIds(heap)
    /\ call.op = "processOrder"
    /\ call.order.type = "STOP_LIMIT"
    /\ call.order.status # "REJECTED"
    /\ lastTradePrice_ # 0
    /\ ~Trigger(call.order, lastTradePrice_)
    /\ stopOrders_ = <<call.h>>

\* the terminal statuses
Terminal(o) == o.status \in {"FILLED", "CANCELLED", "REJECTED"}

\* C36: once an order is FILLED, CANCELLED or REJECTED, no later call
\* changes its status, quantity, filled quantity, price or stop price, and
\* it does not enter a price level again.
C36_TerminalStatuses ==
    [][\A h \in Objects :
          Terminal(heap[h]) =>
             /\ heap'[h].status = heap[h].status
             /\ heap'[h].quantity = heap[h].quantity
             /\ heap'[h].filledQuantity = heap[h].filledQuantity
             /\ heap'[h].price = heap[h].price
             /\ heap'[h].stopPrice = heap[h].stopPrice
             /\ ~RestsIn(Engine, h) => ~RestsIn(Engine', h)]_vars

\* a cancelOrder or modifyOrder call on a FILLED order
C36_Witness ==
    /\ UniqueIds(heap)
    /\ call.op \in {"cancelOrder", "modifyOrder"}
    /\ call.h # 0
    /\ heap[call.h].status = "FILLED"
    /\ heap[call.h].type = "LIMIT"

\* ------------------------------------------- limit orders, one call more
\* Runs of processOrder calls with limit orders and of modifyOrder calls,
\* one call longer than those of Spec: long enough for two orders to rest
\* in one level, one of them partly filled, before a modifyOrder call.

LimitCanCall == ~hung /\ Len(heap) + ncalls < MaxSteps + 1

LimitOnly ==
    /\ LimitCanCall
    /\ \E id \in CallerIds, side \in Sides, q \in Quantities, p \in Prices :
          Submit(Order(id, side, "LIMIT", q, p, PRICE_ZERO))

ModifyOnly ==
    /\ LimitCanCall
    /\ ncalls < MaxCalls
    /\ \E id \in CallerIds, q \in Quantities, p \in Prices :
       \E r \in {modifyOrder(Engine, id, q, p, PRICE_ZERO)} :
          /\ Install(r.e)
          /\ call' = [op |-> "modifyOrder", id |-> id,
                      h |-> getOrder(Engine, id),
                      newQuantity |-> q, newPrice |-> p,
                      newStopPrice |-> PRICE_ZERO, ret |-> r.ret]
    /\ ncalls' = ncalls + 1
    /\ UNCHANGED <<threads, start>>

LimitNext ==
    \/ LimitOnly
    \/ ModifyOnly

LimitSpec == Init /\ [][LimitNext]_vars

\* C37: a modifyOrder call that returns false on a resting limit order
\* leaves the order objects and both books as they were: the order keeps
\* its quantity, price and status, every level keeps its volume, and every
\* level keeps its orders in the same sequence (stated for the runs in
\* which no id was submitted twice).
C37_FailedModifyNoChange ==
    [][(/\ call'.op = "modifyOrder"
        /\ ~call'.ret
        /\ UniqueIds(heap)
        /\ RestingLimit(Engine, call'.h)) =>
          /\ heap' = heap
          /\ buyLevels_' = buyLevels_
          /\ sellLevels_' = sellLevels_]_vars

\* C38: every trade that a processOrder call returns has quantity > 0, in
\* every state reachable by processOrder, cancelOrder and modifyOrder
\* (stated for the runs in which no id was submitted twice).
C38_TradeQuantityPositive ==
    (call.op = "processOrder" /\ UniqueIds(heap)) =>
        \A i \in 1..Len(call.trades) : call.trades[i].quantity > 0

\* C39: the results that getBestBid and getBestAsk give for an empty side
\* are given for an empty side only: getBestBid() = 0 if and only if there
\* is no buy level, getBestAsk() = PRICE_INFINITY if and only if there is
\* no sell level, and no level has price 0 (stated for the states in which
\* the last call has returned and no id was submitted twice).
C39_SentinelsUnambiguous ==
    (~hung /\ UniqueIds(heap)) =>
        /\ getBestBid(Engine) = 0 <=> DOMAIN buyLevels_ = {}
        /\ getBestAsk(Engine) = PRICE_INFINITY <=> DOMAIN sellLevels_ = {}
        /\ 0 \notin DOMAIN buyLevels_ \cup DOMAIN sellLevels_

\* ------------------------------------------------------------ the mutexes
\* The public calls of OrderBook as programs of lock and unlock steps on
\* the four mutexes, run by concurrent threads.  Which branch a call takes
\* depends on the orders; here a branch step may take every branch.  A
\* std::lock_guard locks in its constructor and unlocks at the end of its
\* scope.

MaxThreads == 3
MaxSweeps == 1
MaxTriggered == 1

Mutexes == {"ordersMutex_", "buyMutex_", "sellMutex_", "stopOrdersMutex_"}

SideMutex(side) == IF side = "BUY" THEN "buyMutex_" ELSE "sellMutex_"

\* { std::lock_guard<std::mutex> lock(m); body }
lock_guard(m, body) ==
    <<[i |-> "lock", m |-> m, to |-> {}]>> \o body
        \o <<[i |-> "unlock", m |-> m, to |-> {}]>>

\* an if or a switch: one of the programs of the set to
Branch(to) == <<[i |-> "branch", m |-> "none", to |-> to]>>

\* a loop that runs body up to n times
RECURSIVE Loop(_, _)
Loop(body, n) ==
    IF n = 0 THEN <<>> ELSE Branch({<<>>, body \o Loop(body, n - 1)})

\* OrderBook::matchOrder -> matchAgainstBook(order, levels, levelsMutex)
LocksMatchOrder(side) == lock_guard(SideMutex(Opposite(side)), <<>>)

\* OrderBook::addToBook
LocksAddToBook(side) == lock_guard(SideMutex(side), <<>>)

\* OrderBook::removeFromBook
LocksRemoveFromBook(side) == lock_guard(SideMutex(side), <<>>)

\* addToBook called while matchAgainstBook still holds levelsMutex
LocksProcessLimitOrderNested(side, sweep) ==
    lock_guard(SideMutex(Opposite(side)),
               Branch({<<>>, LocksAddToBook(side)}))
        \o Branch({<<>>, sweep})

\* OrderBook::processMarketOrder, given the program of processTriggerOrders
LocksProcessMarketOrder(side, sweep) ==
    LocksMatchOrder(side) \o Branch({<<>>, sweep})

\* OrderBook::processLimitOrder, given the program of processTriggerOrders
LocksProcessLimitOrder(side, sweep) ==
    LocksMatchOrder(side) \o Branch({<<>>, LocksAddToBook(side)})
        \o Branch({<<>>, sweep})

\* OrderBook::processTriggerOrders, d sweeps deep: the stop list is walked
\* under stopOrdersMutex_, the triggered orders are processed after it
RECURSIVE LocksProcessTriggerOrders(_)
LocksProcessTriggerOrders(d) ==
    lock_guard("stopOrdersMutex_", <<>>)
        \o (IF d = 0 THEN <<>>
            ELSE Loop(Branch(UNION {{LocksProcessMarketOrder(side,
                                         LocksProcessTriggerOrders(d - 1)),
                                     LocksProcessLimitOrder(side,
                                         LocksProcessTriggerOrders(d - 1))} :
                                    side \in Sides}),
                      MaxTriggered))

\* processMarketOrder or processLimitOrder of an order of either side
LocksProcessTriggered ==
    UNION {{LocksProcessMarketOrder(side,
                LocksProcessTriggerOrders(MaxSweeps)),
            LocksProcessLimitOrder(side,
                LocksProcessTriggerOrders(MaxSweeps))} : side \in Sides}

\* OrderBook::processOrder
LocksProcessOrder ==
    Branch({<<>>,
            lock_guard("ordersMutex_", <<>>)
                \o Branch(LocksProcessTriggered
                          \cup {lock_guard("stopOrdersMutex_", <<>>)
                                  \o Branch({<<>>} \cup LocksProcessTriggered)})})

\* OrderBook::cancelOrder
LocksCancelOrder ==
    lock_guard("ordersMutex_", <<>>)
        \o Branch({<<>>, lock_guard("stopOrdersMutex_", <<>>)}
                  \cup {LocksRemoveFromBook(side) : side \in Sides})

\* OrderBook::modifyOrder
LocksModifyOrder ==
    lock_guard("ordersMutex_", <<>>)
        \o Branch({<<>>}
                  \cup {LocksRemoveFromBook(side) \o LocksAddToBook(side) :
                           side \in Sides}
                  \cup LocksProcessTriggered)

\* OrderBook::getOrder
LocksGetOrder == lock_guard("ordersMutex_", <<>>)

\* OrderBook::getBestBid
LocksGetBestBid == lock_guard("buyMutex_", <<>>)

\* OrderBook::getBestAsk
LocksGetBestAsk == lock_guard("sellMutex_", <<>>)

\* OrderBook::getVolumeAtPrice
LocksGetVolumeAtPrice ==
    Branch({lock_guard(SideMutex(side), <<>>) : side \in Sides})

\* OrderBook::isEmpty: buyLock, then sellLock inside its scope
LocksIsEmpty == lock_guard("buyMutex_", lock_guard("sellMutex_", <<>>))

\* the public calls and their programs
LockPrograms ==
    [processOrder |-> LocksProcessOrder,
     cancelOrder |-> LocksCancelOrder,
     modifyOrder |-> LocksModifyOrder,
     getOrder |-> LocksGetOrder,
     getBestBid |-> LocksGetBestBid,
     getBestAsk |-> LocksGetBestAsk,
     getVolumeAtPrice |-> LocksGetVolumeAtPrice,
     isEmpty |-> LocksIsEmpty]

LockThreads == 1..MaxThreads

\* the thread that holds mutex m, as a set
Holders(m) ==
    {t \in LockThreads :
        \E k \in 1..Len(threads[t].held) : threads[t].held[k] = m}

\* thread t is at a lock step
AtLock(t) == threads[t].todo # <<>> /\ Head(threads[t].todo).i = "lock"

\* thread t is at the lock step of a mutex that is held
Waits(t) == AtLock(t) /\ Holders(Head(threads[t].todo).m) # {}

\* thread t holds mutex a and holds, or is at the lock step of, mutex b,
\* which it took or takes inside the scope of a
Nests(t, a, b) ==
    \E k \in 1..Len(threads[t].held) :
       /\ threads[t].held[k] = a
       /\ \/ \E j \in (k + 1)..Len(threads[t].held) : threads[t].held[j] = b
          \/ AtLock(t) /\ Head(threads[t].todo).m = b

\* an engine at rest and threads that have not called yet
LockInit ==
    /\ heap = <<>>
    /\ orders_ = EmptyMap
    /\ buyLevels_ = EmptyMap
    /\ sellLevels_ = EmptyMap
    /\ stopOrders_ = <<>>
    /\ lastTradePrice_ = 0
    /\ filled = <<>>
    /\ arrival = <<>>
    /\ hung = FALSE
    /\ call = [op |-> "none"]
    /\ ncalls = 0
    /\ start = EmptyEngine
    /\ threads = [t \in LockThreads |->
                     [op |-> "none", todo |-> <<>>, held |-> <<>>]]

\* the steps of the threads change no order and no container of the engine
LockFrame ==
    UNCHANGED <<heap, orders_, buyLevels_, sellLevels_, stopOrders_,
                lastTradePrice_, filled, arrival, hung, call, ncalls, start>>

\* thread t enters a public call
LockCall(t) ==
    /\ threads[t].op = "none"
    /\ \E op \in DOMAIN LockPrograms :
          threads' = [threads EXCEPT ![t] =
                         [op |-> op, todo |-> LockPrograms[op], held |-> <<>>]]
    /\ LockFrame

\* thread t takes one branch of an if or a switch
LockBranch(t) ==
    /\ threads[t].todo # <<>>
    /\ Head(threads[t].todo).i = "branch"
    /\ \E body \in Head(threads[t].todo).to :
          threads' = [threads EXCEPT ![t].todo = body \o Tail(@)]
    /\ LockFrame

\* std::mutex::lock: thread t proceeds when no thread holds the mutex
LockAcquire(t) ==
    /\ AtLock(t)
    /\ Holders(Head(threads[t].todo).m) = {}
    /\ threads' = [threads EXCEPT
                      ![t].todo = Tail(@),
                      ![t].held = Append(@, Head(threads[t].todo).m)]
    /\ LockFrame

\* std::mutex::unlock at the end of the scope of the innermost lock_guard
LockRelease(t) ==
    /\ threads[t].todo # <<>>
    /\ Head(threads[t].todo).i = "unlock"
    /\ threads' = [threads EXCEPT
                      ![t].todo = Tail(@),
                      ![t].held = SubSeq(@, 1, Len(@) - 1)]
    /\ LockFrame

LockNext ==
    \E t \in LockThreads :
        \/ LockCall(t)
        \/ LockBranch(t)
        \/ LockAcquire(t)
        \/ LockRelease(t)

LockSpec == LockInit /\ [][LockNext]_vars

\* C40: no interleaving of concurrent public calls reaches a state in which
\* the threads of some set all wait for a mutex that a thread of the set
\* holds (a thread that locks a mutex it holds itself included), and no
\* two threads nest two mutexes in opposite orders.
C40_NoDeadlock ==
    /\ \A S \in SUBSET LockThreads :
          S # {} =>
            \E t \in S :
               ~(AtLock(t) /\ Holders(Head(threads[t].todo).m) \cap S # {})
    /\ \A t, u \in LockThreads :
          \A a, b \in Mutexes :
             ~(Nests(t, a, b) /\ Nests(u, b, a))

\* a thread in isEmpty holds buyMutex_ and waits for sellMutex_, which a
\* thread in processOrder holds, and a third thread waits for buyMutex_
C40_Witness ==
    \E t, u, w \in LockThreads :
        /\ threads[t].op = "isEmpty"
        /\ threads[t].held = <<"buyMutex_">>
        /\ Waits(t)
        /\ threads[u].op = "processOrder"
        /\ u \in Holders("sellMutex_")
        /\ Waits(w)
        /\ Head(threads[w].todo).m = "buyMutex_"

====
